---- MODULE Spec2Model ----
(***************************************************************************)
(* Model of hamilton/function_modifiers/adapters.py: the dependency        *)
(* resolver (resolve_kwargs), the adapter resolver (resolve_adapter_class),*)
(* AdapterFactory, and the two decorators that augment the node graph      *)
(* (LoadFromDecorator.generate_nodes, SaveToDecorator.transform_node)      *)
(* together with the bodies of the nodes they synthesize; and of the       *)
(* concurrent value resolver (await_dict_of_tasks, process_value) and the  *)
(* concurrent execution driver with its lifecycle hooks, which             *)
(* plugin_tests/h_async/test_h_async.py exercises.                         *)
(*                                                                         *)
(* A python dict is an insertion-ordered sequence of [key, val] entries    *)
(* with distinct keys wherever the code iterates over it (the decorator's  *)
(* kwargs, dependencies, resolved_kwargs); dicts that are only looked up   *)
(* are TLA+ functions.                                                     *)
(***************************************************************************)
EXTENDS Integers, Sequences, FiniteSets, TLC

VARIABLES
    call,        \* SpecAdapters: the operation under test and its arguments
    returned,    \* SpecAdapters: what the successive calls returned
    factory,     \* SpecAdapters: the AdapterFactory object (self.adapter_cls, self.kwargs)
    error,       \* the exception raised last, NoError when none
    instances,   \* adapter instances constructed so far (adapter_cls(**kwargs) that returned)
    decorator,   \* Spec: the LoadFromDecorator / SaveToDecorator object
    fn,          \* Spec: the decorated function
    pc,          \* Spec: decorated, validated, invalid, built, running, run_failed
    nodes,       \* Spec: the nodes the augmentation returned
    inputs,      \* Spec, SpecDriver: the graph inputs of the run
    results,     \* Spec, SpecDriver: node name -> value computed in the run
    saved,       \* Spec: the values save_data was invoked on, in order
    evals,       \* Spec: evaluations of the saver node so far
    tasks,       \* SpecResolver: the task table handed to the resolver
    rpc,         \* SpecResolver: idle, gathering, returned
    level,       \* SpecResolver: nesting depth the resolver is gathering at
    suspended,   \* SpecResolver: pending computation -> times it was suspended on
    completed,   \* SpecResolver: pending computation -> the value it produced
    gathered,    \* SpecResolver: what the resolver returned
    dr,          \* SpecDriver: the driver (the form of its registered hooks)
    faulty,      \* SpecDriver: the hook phase or node body that raises, None when none
    final_vars,  \* SpecDriver: the requested outputs of the run
    phase,       \* SpecDriver: Constructed, PreGraph, Executing, PostGraph, Done, Failed
    hook_state,  \* SpecDriver: idle, or suspended inside a non-blocking graph hook
    status,      \* SpecDriver: node -> how far its execution has come
    raw,         \* SpecDriver: node -> raw return value of a concurrent body
    tracked_calls, \* SpecDriver: the hook invocations that completed, in order
    run_result   \* SpecDriver: the result map the run returned

adapterVars == <<call, returned, factory, error, instances>>
graphVars == <<decorator, fn, pc, nodes, inputs, results, saved, evals>>
resolverVars == <<tasks, rpc, level, suspended, completed, gathered>>
driverVars == <<dr, faulty, final_vars, phase, hook_state, status, raw,
                tracked_calls, run_result>>
asyncVars == <<resolverVars, driverVars>>
vars == <<call, returned, factory, error, instances,
          decorator, fn, pc, nodes, inputs, results, saved, evals, asyncVars>>

\* ------------------------------------------------------------------ bounds
\* Longest candidate list handed to a decorator / to resolve_adapter_class.
MaxClasses == 2
\* How often one operation (a resolution, a node evaluation) is repeated.
MaxCalls == 2

\* ---------------------------------------------------------------- universe
None == "None"
Types == {"dict", "int"}
\* Names of adapter constructor keywords.
AdapterKeys == {"path", "key"}
\* Names of upstream nodes / graph inputs; "key" is also an adapter keyword.
SourceNames == {"src", "key"}
\* A call-time or literal value (an opaque python object).
Obj(i) == [obj |-> i]
Values == {Obj(1), Obj(2)}

\* dependencies.py: source(...) and value(...)
UpstreamDependency(s) == [tag |-> "upstream", source |-> s]
LiteralDependency(v) == [tag |-> "literal", value |-> v]
Declarations ==
    {UpstreamDependency(s) : s \in SourceNames} \cup {LiteralDependency(v) : v \in Values}

\* The resolver is not running.
ResolverIdle ==
    /\ tasks = <<>>
    /\ rpc = "idle"
    /\ level = 0
    /\ suspended = [p \in {} |-> 0]
    /\ completed = [p \in {} |-> 0]
    /\ gathered = [tag |-> "none"]
\* No driver has been constructed.
DriverIdle ==
    /\ dr = [form |-> "none"]
    /\ faulty = "None"
    /\ final_vars = {}
    /\ phase = "idle"
    /\ hook_state = "idle"
    /\ status = [n \in {} |-> "waiting"]
    /\ raw = [n \in {} |-> 0]
    /\ tracked_calls = <<>>
    /\ run_result = [tag |-> "none"]
AsyncIdle == ResolverIdle /\ DriverIdle

\* ------------------------------------------------------------ dict helpers
Range(s) == {s[i] : i \in DOMAIN s}
SeqsUpTo(S, n) == UNION {[1..m -> S] : m \in 0..n}
EmptyDict == [k \in {} |-> 0]
DictKeys(d) == {d[i].key : i \in DOMAIN d}
DictGet(d, k) == d[CHOOSE i \in DOMAIN d : d[i].key = k].val
\* d[k] = v on an insertion-ordered dict: a known key keeps its place.
DictSet(d, k, v) ==
    IF k \in DictKeys(d)
    THEN [i \in DOMAIN d |-> IF d[i].key = k THEN [key |-> k, val |-> v] ELSE d[i]]
    ELSE Append(d, [key |-> k, val |-> v])
\* The mapping an ordered dict stands for (python's == on dicts ignores order).
AsMap(d) == [k \in DictKeys(d) |-> DictGet(d, k)]
\* {**a, **b} on mappings: b wins.
Merge(a, b) == [k \in DOMAIN a \cup DOMAIN b |-> IF k \in DOMAIN b THEN b[k] ELSE a[k]]

\* The decorator's **kwargs: ordered, distinct keywords, each a declaration.
KwargsDicts ==
    {d \in SeqsUpTo([key : AdapterKeys, val : Declarations], Cardinality(AdapterKeys)) :
        \A i, j \in DOMAIN d : d[i].key = d[j].key => i = j}
\* Call-time keyword arguments of a constructor: keyword -> value.
ResolvedKwargs == UNION {[ks -> Values] : ks \in SUBSET AdapterKeys}

\* ------------------------------------------------- adapter implementations
\* An implementation's class-level contract (AdapterCommon): name(),
\* get_required_arguments(), get_optional_arguments() (their key sets),
\* applies_to (the set of types it accepts), can_load(), can_save().
AdapterClass(n, req, opt, app, cl, cs) ==
    [name |-> n, required |-> req, optional |-> opt, applies |-> app,
     can_load |-> cl, can_save |-> cs]
\* The value python's None takes where a class is expected.
NoneCls == AdapterClass(None, {}, {}, {}, FALSE, FALSE)
\* The candidates a registry key offers, in registration order.
CandidateClasses ==
    { AdapterClass("json", {"path"}, {"key"}, {"dict"}, TRUE, TRUE),
      AdapterClass("csv", {"path", "key"}, {}, {"dict", "int"}, TRUE, FALSE),
      AdapterClass("dump", {"path"}, {}, {"dict"}, FALSE, TRUE),
      AdapterClass("literal", {}, {"key"}, {"int"}, TRUE, TRUE) }
\* A class is registered once: the lists hold distinct classes.
CandidateLists ==
    {cs \in SeqsUpTo(CandidateClasses, MaxClasses) :
        \A i, j \in DOMAIN cs : cs[i] = cs[j] => i = j}
\* Every parameter schema over AdapterKeys with every pair of capability flags.
SchemaClasses ==
    { AdapterClass("adapter", req, opt, {"dict"}, cl, cs) :
        req \in SUBSET AdapterKeys, opt \in SUBSET AdapterKeys,
        cl \in BOOLEAN, cs \in BOOLEAN }
AllSchemaClasses == {c \in SchemaClasses : c.required \cap c.optional = {}}

applies_to(cls, type_) == type_ \in cls.applies

\* ----------------------------------------------------------------- errors
\* An exception: its class, the function that raised it, and what its message
\* shows (the names in `shown`, with the sets printed for them).
Exception(exc, by, shown, missing, extra, req, opt) ==
    [exc |-> exc, raised_by |-> by, shown |-> shown,
     missing_params |-> missing, extra_params |-> extra,
     required_args |-> req, optional_args |-> opt]
NoError == Exception("none", "none", {}, {}, {}, {}, {})
InvalidDecoratorException(by) ==
    Exception("InvalidDecoratorException", by, {}, {}, {}, {}, {})
TypeError(by) == Exception("TypeError", by, {}, {}, {}, {}, {})

\* ---------------------------------------------------------- resolve_kwargs
RECURSIVE resolve_kwargs_from(_, _, _, _)
resolve_kwargs_from(kwargs, i, dependencies, resolved_kwargs) ==
    IF i > Len(kwargs) THEN <<dependencies, resolved_kwargs>>
    ELSE LET name == kwargs[i].key
             dependency == kwargs[i].val
         IN  IF dependency.tag = "upstream"
             THEN resolve_kwargs_from(kwargs, i + 1,
                      DictSet(dependencies, name, dependency.source), resolved_kwargs)
             ELSE IF dependency.tag = "literal"
             THEN resolve_kwargs_from(kwargs, i + 1,
                      dependencies, DictSet(resolved_kwargs, name, dependency.value))
             ELSE resolve_kwargs_from(kwargs, i + 1, dependencies, resolved_kwargs)

\* Faulty variant: `if ... if` instead of `if ... elif`, with the literal branch taken
\* for every declaration that carries no value (the entry lands in both dicts).
RECURSIVE resolve_kwargs_both_from(_, _, _, _)
resolve_kwargs_both_from(kwargs, i, dependencies, resolved_kwargs) ==
    IF i > Len(kwargs) THEN <<dependencies, resolved_kwargs>>
    ELSE LET name == kwargs[i].key
             dependency == kwargs[i].val
         IN  IF dependency.tag = "upstream"
             THEN resolve_kwargs_both_from(kwargs, i + 1,
                      DictSet(dependencies, name, dependency.source),
                      DictSet(resolved_kwargs, name, Obj(1)))
             ELSE resolve_kwargs_both_from(kwargs, i + 1,
                      dependencies, DictSet(resolved_kwargs, name, dependency.value))
resolve_kwargs_both(kwargs) == resolve_kwargs_both_from(kwargs, 1, <<>>, <<>>)

resolve_kwargs(kwargs) == resolve_kwargs_from(kwargs, 1, <<>>, <<>>)

\* --------------------------------------------------- resolve_adapter_class
\* for loader_cls in reversed(loader_classes): the scan from index i down.
RECURSIVE resolve_adapter_class_from(_, _, _)
resolve_adapter_class_from(type_, loader_classes, i) ==
    IF i = 0 THEN NoneCls
    ELSE IF applies_to(loader_classes[i], type_) THEN loader_classes[i]
    ELSE resolve_adapter_class_from(type_, loader_classes, i - 1)

\* Faulty variant: the scan without reversed(), first registered wins.
RECURSIVE resolve_adapter_class_forward_from(_, _, _)
resolve_adapter_class_forward_from(type_, loader_classes, i) ==
    IF i > Len(loader_classes) THEN NoneCls
    ELSE IF applies_to(loader_classes[i], type_) THEN loader_classes[i]
    ELSE resolve_adapter_class_forward_from(type_, loader_classes, i + 1)
resolve_adapter_class_forward(type_, loader_classes) ==
    resolve_adapter_class_forward_from(type_, loader_classes, 1)

resolve_adapter_class(type_, loader_classes) ==
    resolve_adapter_class_from(type_, loader_classes, Len(loader_classes))

\* ---------------------------------------------------------- AdapterFactory
\* Faulty variant: the extra parameters are checked first, so a map with both kinds of
\* mistake reports no missing parameter.
AdapterFactory_validate_extra_first(adapter_cls, kwargs) ==
    LET required_args == adapter_cls.required
        optional_args == adapter_cls.optional
        missing_params == required_args \ DictKeys(kwargs)
        extra_params == (DictKeys(kwargs) \ required_args) \ optional_args
    IN  IF extra_params # {}
        THEN Exception("InvalidDecoratorException", "AdapterFactory.validate",
                 {"extra_params"}, {}, extra_params, {}, {})
        ELSE IF missing_params # {}
        THEN Exception("InvalidDecoratorException", "AdapterFactory.validate",
                 {"missing_params", "required_args", "optional_args"},
                 missing_params, {}, required_args, optional_args)
        ELSE NoError

\* Faulty variant: extra parameters are let through.
AdapterFactory_validate_no_extra(adapter_cls, kwargs) ==
    LET required_args == adapter_cls.required
        optional_args == adapter_cls.optional
        missing_params == required_args \ DictKeys(kwargs)
    IN  IF missing_params # {}
        THEN Exception("InvalidDecoratorException", "AdapterFactory.validate",
                 {"missing_params", "required_args", "optional_args"},
                 missing_params, {}, required_args, optional_args)
        ELSE NoError

\* validate(): the exception it raises, NoError when it returns.
AdapterFactory_validate(adapter_cls, kwargs) ==
    LET required_args == adapter_cls.required
        optional_args == adapter_cls.optional
        missing_params == required_args \ DictKeys(kwargs)
        extra_params == (DictKeys(kwargs) \ required_args) \ optional_args
    IN  IF missing_params # {}
        THEN Exception("InvalidDecoratorException", "AdapterFactory.validate",
                 {"missing_params", "required_args", "optional_args"},
                 missing_params, {}, required_args, optional_args)
        ELSE IF extra_params # {}
        THEN Exception("InvalidDecoratorException", "AdapterFactory.validate",
                 {"extra_params"}, {}, extra_params, {}, {})
        ELSE NoError

NoFactory == [adapter_cls |-> NoneCls, kwargs |-> <<>>]
\* __init__: stores the class and the kwargs, then validates; an exception
\* leaves the caller without a factory.
AdapterFactory(adapter_cls, kwargs) ==
    LET e == AdapterFactory_validate(adapter_cls, kwargs)
    IN  [error |-> e,
         factory |-> IF e = NoError THEN [adapter_cls |-> adapter_cls, kwargs |-> kwargs]
                     ELSE NoFactory]

NoInstance == [adapter_cls |-> NoneCls, kwargs |-> EmptyDict]
\* adapter_cls(**resolved_kwargs). The implementations are dataclasses whose
\* fields without a default are get_required_arguments() and whose fields with
\* one are get_optional_arguments(): the generated __init__ raises TypeError
\* for a missing required keyword and for an unknown one.
Construct(adapter_cls, resolved_kwargs) ==
    IF /\ adapter_cls.required \subseteq DOMAIN resolved_kwargs
       /\ DOMAIN resolved_kwargs \subseteq adapter_cls.required \cup adapter_cls.optional
    THEN [error |-> NoError,
          instance |-> [adapter_cls |-> adapter_cls, kwargs |-> resolved_kwargs]]
    ELSE [error |-> TypeError("adapter_cls.__init__"), instance |-> NoInstance]

\* Faulty variant: create_loader asks the other capability flag.
create_loader_other_flag(self, resolved_kwargs) ==
    IF ~self.adapter_cls.can_save
    THEN [error |-> InvalidDecoratorException("AdapterFactory.create_loader"),
          instance |-> NoInstance]
    ELSE Construct(self.adapter_cls, resolved_kwargs)

create_loader(self, resolved_kwargs) ==
    IF ~self.adapter_cls.can_load
    THEN [error |-> InvalidDecoratorException("AdapterFactory.create_loader"),
          instance |-> NoInstance]
    ELSE Construct(self.adapter_cls, resolved_kwargs)

create_saver(self, resolved_kwargs) ==
    IF ~self.adapter_cls.can_save
    THEN [error |-> InvalidDecoratorException("AdapterFactory.create_saver"),
          instance |-> NoInstance]
    ELSE Construct(self.adapter_cls, resolved_kwargs)

\* ------------------------------------------------------------------- nodes
\* hamilton.node: DependencyType and the (type, dependency type) of an input.
REQUIRED == "REQUIRED"
OPTIONAL == "OPTIONAL"
\* A type is a sequence of words: <<"dict">>, <<"Tuple", "Dict[str, Any]", "dict">>.
AnyType == <<"Any">>
InputType(typ, dep) == [type |-> typ, dep |-> dep]

\* A decorated function: its name, its parameters in signature order, their
\* type hints and its return type.
Function(n, params, hints, returns) ==
    [name |-> n, params |-> params, hints |-> hints, returns |-> returns]
NoFn == Function(None, <<>>, EmptyDict, None)
Fns ==
    { Function("f", <<>>, EmptyDict, "dict"),
      Function("f", <<"x">>, [p \in {"x"} |-> "dict"], "dict"),
      Function("f", <<"x", "y">>, [p \in {"x", "y"} |-> IF p = "x" THEN "dict" ELSE "int"],
               "dict"),
      Function("key", <<"x">>, [p \in {"x"} |-> "int"], "int") }
\* What calling fn(**kwargs) returns: fn is any function, so its value is the
\* term itself.
Apply(f, kwargs) == [fn |-> f.name, args |-> kwargs]

\* node.Node(name, typ, callabl, input_types, namespace, tags)
Node(name, typ, callabl, input_types, namespace, tags) ==
    [name |-> name, typ |-> typ, callabl |-> callabl, input_types |-> input_types,
     namespace |-> namespace, tags |-> tags]
\* ".".join(parts) for the names this universe can build.
DottedNames ==
    { <<<<"load_data", "f", "x">>, "load_data.f.x">>,
      <<<<"load_data", "key", "x">>, "load_data.key.x">>,
      <<<<"save", "f">>, "save.f">>,
      <<<<"save", "key">>, "save.key">> }
Join(parts) ==
    IF Len(parts) = 1 THEN parts[1] ELSE (CHOOSE e \in DottedNames : e[1] = parts)[2]
\* Node.name: the name qualified by the namespace, ".".join(namespace + (name,)).
QualifiedName(n) == Join(n.namespace \o <<n.name>>)
\* Node.from_fn(fn): one required input per parameter, typed by its hint.
Node_from_fn(f) ==
    Node(f.name, <<f.returns>>, [fn |-> "fn", wrapped |-> f],
         [p \in Range(f.params) |-> InputType(<<f.hints[p]>>, REQUIRED)], <<>>, EmptyDict)

\* AdapterCommon instances: load_data(type_) returns (value, metadata) and
\* save_data(data) returns metadata; both are any function of the instance
\* and the argument, so their values are the terms themselves.
adapter_load_data(instance, type_) ==
    <<[loaded_by |-> instance, as_type |-> type_], [metadata_of |-> instance]>>
adapter_save_data(instance, data) == [saved_by |-> instance, data |-> data]

\* ------------------------------------------------ what the decorators share
\* dependencies_inverted = {v: k for k, v in dependencies.items()}: of the
\* keywords naming one source, the last in insertion order is kept.
dependencies_inverted_of(dependencies) ==
    [s \in {dependencies[i].val : i \in DOMAIN dependencies} |->
        LET last == CHOOSE i \in DOMAIN dependencies :
                        /\ dependencies[i].val = s
                        /\ \A j \in DOMAIN dependencies : dependencies[j].val = s => j <= i
        IN  dependencies[last].key]

\* {__dependencies.get(key, key): value for key, value in input_kwargs.items()}.
\* The node is called with its inputs in input_types order, where the save
\* path's data input comes last: of two inputs renamed to one keyword the
\* later is kept (`last` is None on the load path).
input_args_with_fixed_dependencies(dependencies, input_kwargs, last) ==
    LET renamed(key) == IF key \in DOMAIN dependencies THEN dependencies[key] ELSE key
    IN  [k \in {renamed(key) : key \in DOMAIN input_kwargs} |->
            LET from == {key \in DOMAIN input_kwargs : renamed(key) = k}
            IN  IF last \in from THEN input_kwargs[last]
                ELSE input_kwargs[CHOOSE key \in from : TRUE]]

\* get_input_type_key and the three statements that build input_types from the
\* implementation's required and optional arguments.
adapter_input_types(cls, dependencies, resolved_kwargs) ==
    LET get_input_type_key(key) ==
            IF key \notin DictKeys(dependencies) THEN key ELSE DictGet(dependencies, key)
        required == {get_input_type_key(key) : key \in cls.required}
        optional == {DictGet(dependencies, key) :
                        key \in cls.optional \cap DictKeys(dependencies)}
    IN  [key \in (required \cup optional) \ DictKeys(resolved_kwargs) |->
            InputType(AnyType, IF key \in optional THEN OPTIONAL ELSE REQUIRED)]

\* ------------------------------------------------------- LoadFromDecorator
LoadFromDecorator(loader_classes, inject_, kwargs) ==
    [kind |-> "load_from", classes |-> loader_classes, inject |-> inject_,
     artifact_name |-> None, kwargs |-> kwargs]

\* Faulty variant: without the `len(sig.parameters) != 1` check the first
\* parameter of a longer signature is taken.
get_inject_parameter_first(self, f) ==
    IF self.inject = None
    THEN IF Len(f.params) = 0
         THEN [error |-> InvalidDecoratorException("_get_inject_parameter"),
               inject |-> None, type_ |-> None]
         ELSE [error |-> NoError, inject |-> f.params[1], type_ |-> f.hints[f.params[1]]]
    ELSE IF self.inject \notin Range(f.params)
         THEN [error |-> InvalidDecoratorException("_get_inject_parameter"),
               inject |-> None, type_ |-> None]
         ELSE [error |-> NoError, inject |-> self.inject, type_ |-> f.hints[self.inject]]

\* _get_inject_parameter(fn) -> (inject, typing.get_type_hints(fn)[inject])
get_inject_parameter(self, f) ==
    IF self.inject = None
    THEN IF Len(f.params) = 0
         THEN [error |-> InvalidDecoratorException("_get_inject_parameter"),
               inject |-> None, type_ |-> None]
         ELSE IF Len(f.params) # 1
         THEN [error |-> InvalidDecoratorException("_get_inject_parameter"),
               inject |-> None, type_ |-> None]
         ELSE [error |-> NoError, inject |-> f.params[1], type_ |-> f.hints[f.params[1]]]
    ELSE IF self.inject \notin Range(f.params)
         THEN [error |-> InvalidDecoratorException("_get_inject_parameter"),
               inject |-> None, type_ |-> None]
         ELSE [error |-> NoError, inject |-> self.inject, type_ |-> f.hints[self.inject]]

\* LoadFromDecorator.validate(fn): the exception it raises, NoError when none.
LoadFromDecorator_validate(self, f) ==
    LET p == get_inject_parameter(self, f)
        cls == resolve_adapter_class(p.type_, self.classes)
    IN  IF p.error # NoError THEN p.error
        ELSE IF cls = NoneCls THEN InvalidDecoratorException("LoadFromDecorator.validate")
        ELSE AdapterFactory_validate(cls, self.kwargs)

\* The loader node generate_nodes builds; load_data's defaults are its closure.
loader_node_of(self, f, loader_cls, loader_factory, inject_parameter, load_type) ==
    LET resolved == resolve_kwargs(self.kwargs)
        dependencies == resolved[1]
        resolved_kwargs == resolved[2]
    IN  Node(inject_parameter,
             <<"Tuple", "Dict[str, Any]", load_type>>,
             [fn |-> "load_data", loader_factory |-> loader_factory,
              load_type |-> load_type, resolved_kwargs |-> AsMap(resolved_kwargs),
              dependencies |-> dependencies_inverted_of(dependencies),
              optional_params |-> loader_cls.optional],
             adapter_input_types(loader_cls, dependencies, resolved_kwargs),
             <<"load_data", f.name>>,
             [data_loader |-> TRUE, source |-> loader_cls.name,
              classname |-> loader_cls.name])

\* The rewritten target node: raw_node.copy_with(input_types, callabl).
data_node_of(f, loader_node, inject_parameter) ==
    LET raw_node == Node_from_fn(f)
        new_input_types ==
            [key \in {IF k # inject_parameter THEN k ELSE QualifiedName(loader_node) :
                         k \in DOMAIN raw_node.input_types} |-> loader_node.typ]
    IN  [raw_node EXCEPT
            !.input_types = new_input_types,
            !.callabl = [fn |-> "inject_function", wrapped |-> f,
                         inject_parameter |-> inject_parameter,
                         loader_node_name |-> QualifiedName(loader_node)]]

\* generate_nodes(fn, config): [error, nodes].
LoadFromDecorator_generate_nodes(self, f) ==
    LET p == get_inject_parameter(self, f)
        loader_cls == resolve_adapter_class(p.type_, self.classes)
        made == AdapterFactory(loader_cls, self.kwargs)
        loader_node == loader_node_of(self, f, loader_cls, made.factory, p.inject, p.type_)
    IN  IF p.error # NoError THEN [error |-> p.error, nodes |-> <<>>]
        ELSE IF loader_cls = NoneCls
        THEN [error |-> InvalidDecoratorException("LoadFromDecorator.generate_nodes"),
              nodes |-> <<>>]
        ELSE IF made.error # NoError THEN [error |-> made.error, nodes |-> <<>>]
        ELSE [error |-> NoError,
              nodes |-> <<loader_node, data_node_of(f, loader_node, p.inject)>>]

\* The body of the loader node: load_data(**input_kwargs) -> [error, value].
load_data(callabl, input_kwargs) ==
    LET fixed == input_args_with_fixed_dependencies(callabl.dependencies, input_kwargs, None)
        kwargs == Merge(callabl.resolved_kwargs, fixed)
        made == create_loader(callabl.loader_factory, kwargs)
    IN  IF made.error # NoError THEN [error |-> made.error, value |-> <<>>, built |-> <<>>]
        ELSE [error |-> NoError,
              value |-> adapter_load_data(made.instance, callabl.load_type),
              built |-> <<made.instance>>]

\* The body of the rewritten node: inject_function(**kwargs) -> [error, value].
inject_function(callabl, kwargs) ==
    LET loaded == kwargs[callabl.loader_node_name]
        others == [k \in DOMAIN kwargs \ {callabl.loader_node_name} |-> kwargs[k]]
        new_kwargs == Merge(others,
                            [k \in {callabl.inject_parameter} |-> loaded[1]])
    IN  [error |-> NoError, value |-> Apply(callabl.wrapped, new_kwargs), built |-> <<>>]

\* --------------------------------------------------------- SaveToDecorator
SaveToDecorator(saver_classes_, output_name_, kwargs) ==
    [kind |-> "save_to", classes |-> saver_classes_, inject |-> None,
     artifact_name |-> output_name_, kwargs |-> kwargs]
NoDecorator == [kind |-> "none", classes |-> <<>>, inject |-> None,
                artifact_name |-> None, kwargs |-> <<>>]

\* The saver node's input_types: the adapter's inputs, then
\* input_types[node_.name] = (node_.type, REQUIRED).
save_input_types(saver_cls, dependencies, resolved_kwargs, node_) ==
    Merge(adapter_input_types(saver_cls, dependencies, resolved_kwargs),
          [k \in {node_.name} |-> InputType(node_.typ, REQUIRED)])

\* transform_node(node_, config, fn): [error, nodes].
SaveToDecorator_transform_node(self, node_) ==
    LET artifact_name == IF self.artifact_name = None THEN node_.name
                         ELSE self.artifact_name
        artifact_namespace == IF self.artifact_name = None THEN <<"save">> ELSE <<>>
        type_ == node_.typ[1]
        saver_cls == resolve_adapter_class(type_, self.classes)
        made == AdapterFactory(saver_cls, self.kwargs)
        resolved == resolve_kwargs(self.kwargs)
        dependencies == resolved[1]
        resolved_kwargs == resolved[2]
        save_node ==
            Node(artifact_name, <<"Dict[str, Any]">>,
                 [fn |-> "save_data", adapter_factory |-> made.factory,
                  dependencies |-> dependencies_inverted_of(dependencies),
                  resolved_kwargs |-> AsMap(resolved_kwargs),
                  data_node_name |-> node_.name],
                 save_input_types(saver_cls, dependencies, resolved_kwargs, node_),
                 artifact_namespace,
                 [data_saver |-> TRUE, sink |-> saver_cls.name,
                  classname |-> saver_cls.name])
    IN  IF saver_cls = NoneCls
        THEN [error |-> InvalidDecoratorException("SaveToDecorator.transform_node"),
              nodes |-> <<>>]
        ELSE IF made.error # NoError THEN [error |-> made.error, nodes |-> <<>>]
        ELSE [error |-> NoError, nodes |-> <<save_node, node_>>]

KeyError(by) == Exception("KeyError", by, {}, {}, {}, {}, {})

\* The body of the saver node: save_data(**input_kwargs) -> [error, value],
\* with the instances it built and the values it handed to save_data.
save_data(callabl, input_kwargs) ==
    LET fixed == input_args_with_fixed_dependencies(callabl.dependencies, input_kwargs,
                                                    callabl.data_node_name)
        merged == Merge(callabl.resolved_kwargs, fixed)
        data_to_save == merged[callabl.data_node_name]
        kwargs == [k \in DOMAIN merged \ {callabl.data_node_name} |-> merged[k]]
        made == create_saver(callabl.adapter_factory, kwargs)
    IN  IF callabl.data_node_name \notin DOMAIN merged
        THEN [error |-> KeyError("save_data"), value |-> <<>>, built |-> <<>>,
              saves |-> <<>>]
        ELSE IF made.error # NoError
        THEN [error |-> made.error, value |-> <<>>, built |-> <<>>, saves |-> <<>>]
        ELSE [error |-> NoError,
              value |-> adapter_save_data(made.instance, data_to_save),
              built |-> <<made.instance>>, saves |-> <<data_to_save>>]

\* The body of an undecorated node: fn(**kwargs).
call_fn(callabl, kwargs) ==
    [error |-> NoError, value |-> Apply(callabl.wrapped, kwargs), built |-> <<>>]

\* ====================================================== SpecAdapters
\* The three leaf components called directly, each on every input of the
\* bounded universe.
NoCall == [op |-> "none"]
ResolveAdapterCalls ==
    {[op |-> "resolve_adapter_class", type_ |-> t, loader_classes |-> cs] :
        t \in Types, cs \in CandidateLists}
ResolveKwargsCalls == {[op |-> "resolve_kwargs", kwargs |-> kw] : kw \in KwargsDicts}
AdapterFactoryCalls ==
    {[op |-> "AdapterFactory", adapter_cls |-> c, kwargs |-> kw] :
        c \in AllSchemaClasses, kw \in KwargsDicts}

InitAdapters ==
    /\ call \in ResolveAdapterCalls \cup ResolveKwargsCalls \cup AdapterFactoryCalls
    /\ returned = <<>>
    /\ factory = NoFactory
    /\ error = NoError
    /\ instances = <<>>
    /\ decorator = NoDecorator
    /\ fn = NoFn
    /\ pc = "idle"
    /\ nodes = <<>>
    /\ inputs = EmptyDict
    /\ results = EmptyDict
    /\ saved = <<>>
    /\ evals = 0
    /\ AsyncIdle

CallResolveAdapterClass ==
    /\ call.op = "resolve_adapter_class"
    /\ Len(returned) < MaxCalls
    /\ returned' = Append(returned, resolve_adapter_class(call.type_, call.loader_classes))
    /\ UNCHANGED <<asyncVars, call, factory, error, instances, graphVars>>

CallResolveKwargs ==
    /\ call.op = "resolve_kwargs"
    /\ returned = <<>>
    /\ returned' = <<resolve_kwargs(call.kwargs)>>
    /\ UNCHANGED <<asyncVars, call, factory, error, instances, graphVars>>

NewAdapterFactory ==
    /\ call.op = "AdapterFactory"
    /\ factory = NoFactory
    /\ error = NoError
    /\ LET r == AdapterFactory(call.adapter_cls, call.kwargs)
       IN  /\ factory' = r.factory
           /\ error' = r.error
    /\ UNCHANGED <<asyncVars, call, returned, instances, graphVars>>

CallCreateLoader ==
    /\ factory # NoFactory
    /\ returned = <<>>
    /\ \E resolved_kwargs \in ResolvedKwargs :
          LET r == create_loader(factory, resolved_kwargs)
          IN  /\ returned' = <<[op |-> "create_loader", kwargs |-> resolved_kwargs,
                                instance |-> r.instance]>>
              /\ error' = r.error
              /\ instances' = IF r.error = NoError THEN Append(instances, r.instance)
                              ELSE instances
    /\ UNCHANGED <<asyncVars, call, factory, graphVars>>

CallCreateSaver ==
    /\ factory # NoFactory
    /\ returned = <<>>
    /\ \E resolved_kwargs \in ResolvedKwargs :
          LET r == create_saver(factory, resolved_kwargs)
          IN  /\ returned' = <<[op |-> "create_saver", kwargs |-> resolved_kwargs,
                                instance |-> r.instance]>>
              /\ error' = r.error
              /\ instances' = IF r.error = NoError THEN Append(instances, r.instance)
                              ELSE instances
    /\ UNCHANGED <<asyncVars, call, factory, graphVars>>

NextAdapters ==
    \/ CallResolveAdapterClass
    \/ CallResolveKwargs
    \/ NewAdapterFactory
    \/ CallCreateLoader
    \/ CallCreateSaver

SpecAdapters == InitAdapters /\ [][NextAdapters]_vars

\* ============================================================== Spec
\* A decorator applied to a function, the graph construction that calls it,
\* and a run of the nodes it returned.
InjectNames == {None, "x", "z"}
OutputNames == {None, "f", "out"}
Decorators ==
    {LoadFromDecorator(cs, inject_, kw) :
        cs \in CandidateLists, inject_ \in InjectNames, kw \in KwargsDicts}
    \cup
    {SaveToDecorator(cs, output_name_, kw) :
        cs \in CandidateLists, output_name_ \in OutputNames, kw \in KwargsDicts}

Init ==
    /\ call = NoCall
    /\ returned = <<>>
    /\ factory = NoFactory
    /\ error = NoError
    /\ instances = <<>>
    /\ decorator \in Decorators
    /\ fn \in Fns
    /\ pc = "decorated"
    /\ nodes = <<>>
    /\ inputs = EmptyDict
    /\ results = EmptyDict
    /\ saved = <<>>
    /\ evals = 0
    /\ AsyncIdle

\* The decorator is applied to the function: validate(fn).
\* SaveToDecorator.validate is `pass`.
Validate ==
    /\ pc = "decorated"
    /\ LET e == IF decorator.kind = "load_from"
                THEN LoadFromDecorator_validate(decorator, fn)
                ELSE NoError
       IN  /\ error' = e
           /\ pc' = IF e = NoError THEN "validated" ELSE "invalid"
    /\ UNCHANGED <<asyncVars, decorator, fn, nodes, inputs, results, saved, evals,
                   call, returned, factory, instances>>

\* Graph construction resolves the load decorator: generate_nodes(fn, config).
GenerateNodes ==
    /\ decorator.kind = "load_from"
    /\ pc \in {"decorated", "validated"}
    /\ LET r == LoadFromDecorator_generate_nodes(decorator, fn)
       IN  /\ error' = r.error
           /\ nodes' = r.nodes
           /\ pc' = IF r.error = NoError THEN "built" ELSE "invalid"
    /\ UNCHANGED <<asyncVars, decorator, fn, inputs, results, saved, evals,
                   call, returned, factory, instances>>

\* Graph construction resolves the save decorator on the function's node:
\* transform_node(node_, config, fn).
TransformNode ==
    /\ decorator.kind = "save_to"
    /\ pc \in {"decorated", "validated"}
    /\ LET r == SaveToDecorator_transform_node(decorator, Node_from_fn(fn))
       IN  /\ error' = r.error
           /\ nodes' = r.nodes
           /\ pc' = IF r.error = NoError THEN "built" ELSE "invalid"
    /\ UNCHANGED <<asyncVars, decorator, fn, inputs, results, saved, evals,
                   call, returned, factory, instances>>

\* ------------------------------------------------------------- the run
NodeNames == {QualifiedName(nodes[i]) : i \in DOMAIN nodes}
NamesDistinct ==
    \A i, j \in DOMAIN nodes : QualifiedName(nodes[i]) = QualifiedName(nodes[j]) => i = j
\* An input given as a bare type is a required one (Node's constructor).
IsRequiredInput(n, k) ==
    IF n.callabl.fn = "inject_function" THEN TRUE ELSE n.input_types[k].dep = REQUIRED
RequiredInputs(n) == {k \in DOMAIN n.input_types : IsRequiredInput(n, k)}
RequiredGraphInputs == UNION {RequiredInputs(nodes[i]) : i \in DOMAIN nodes} \ NodeNames
OptionalGraphInputs ==
    (UNION {DOMAIN nodes[i].input_types : i \in DOMAIN nodes} \ NodeNames)
        \ RequiredGraphInputs

\* driver.execute(..., inputs=...): every required graph input is given, an
\* optional one may be.
Execute ==
    /\ pc = "built"
    /\ NamesDistinct
    /\ \E given \in SUBSET OptionalGraphInputs :
          \E values \in [RequiredGraphInputs \cup given -> Values] : inputs' = values
    /\ pc' = "running"
    /\ UNCHANGED <<asyncVars, decorator, fn, nodes, results, saved, evals, error,
                   call, returned, factory, instances>>

\* node.callable(**kwargs)
CallNode(n, kwargs) ==
    CASE n.callabl.fn = "load_data" ->
            load_data(n.callabl, kwargs) @@ [saves |-> <<>>]
      [] n.callabl.fn = "inject_function" ->
            inject_function(n.callabl, kwargs) @@ [saves |-> <<>>]
      [] n.callabl.fn = "save_data" -> save_data(n.callabl, kwargs)
      [] OTHER -> call_fn(n.callabl, kwargs) @@ [saves |-> <<>>]

\* The driver evaluates a node whose required inputs are computed or given,
\* passing it the inputs it declares. The saver node may be requested again.
EvalNode(i) ==
    /\ pc = "running"
    /\ LET n == nodes[i]
           name == QualifiedName(n)
           available == DOMAIN inputs \cup DOMAIN results
           value_of(k) == IF k \in DOMAIN results THEN results[k] ELSE inputs[k]
           kwargs == [k \in DOMAIN n.input_types \cap available |-> value_of(k)]
           out == CallNode(n, kwargs)
           is_saver == n.callabl.fn = "save_data"
       IN  /\ RequiredInputs(n) \subseteq available
           /\ IF is_saver THEN evals < MaxCalls ELSE name \notin DOMAIN results
           /\ evals' = IF is_saver THEN evals + 1 ELSE evals
           /\ error' = out.error
           /\ instances' = instances \o out.built
           /\ saved' = saved \o out.saves
           /\ IF out.error = NoError
              THEN /\ pc' = "running"
                   /\ results' = [k \in DOMAIN results \cup {name} |->
                                     IF k = name THEN out.value ELSE results[k]]
              ELSE /\ pc' = "run_failed"
                   /\ results' = results
    /\ UNCHANGED <<asyncVars, decorator, fn, nodes, inputs, call, returned, factory>>

Next ==
    \/ Validate
    \/ GenerateNodes
    \/ TransformNode
    \/ Execute
    \/ \E i \in DOMAIN nodes : EvalNode(i)

Spec == Init /\ [][Next]_vars

\* ================================ h_async: the concurrent value resolver
\* Largest task table, counted in values at every nesting depth.
MaxSize == 5

\* A value of the task table: immediate, a single pending computation
\* (a coroutine or a task), or a pending group of further such values.
Immediate(v) == [tag |-> "immediate", value |-> v]
Pending == [tag |-> "pending"]
PendingGroup(ms) == [tag |-> "group", members |-> ms]

\* Every value made of exactly n values (a group counts itself and its
\* members), and every collection of values of n values in total.
RECURSIVE Collections(_)
PendingOrValues(n) ==
    (IF n = 1 THEN {Immediate(Obj(1)), Pending} ELSE {})
    \cup {PendingGroup(ms) : ms \in Collections(n - 1)}
Collections(n) ==
    IF n = 0 THEN {<<>>}
    ELSE UNION {{<<v>> \o ms : v \in PendingOrValues(k), ms \in Collections(n - k)} :
                   k \in 1..n}
\* A task table maps the keys 1..n to values; a pending computation is
\* identified by its place: its key, then its position in each enclosing group.
TaskTables == UNION {Collections(n) : n \in 0..MaxSize}

\* What the pending computation at place p produces when it finishes.
AwaitResult(p) == [awaited |-> p]

\* The single pending computations d groups deep in the collection ms.
RECURSIVE PendingAt(_, _, _)
PendingAt(ms, prefix, d) ==
    UNION {LET p == Append(prefix, i)
           IN  IF d = 0
               THEN IF ms[i].tag = "pending" THEN {p} ELSE {}
               ELSE IF ms[i].tag = "group"
                    THEN PendingAt(ms[i].members, p, d - 1)
                    ELSE {} : i \in DOMAIN ms}

\* How deep groups nest in the collection ms (0: no group).
RECURSIVE Nesting(_)
Nesting(ms) ==
    LET ds == {IF ms[i].tag = "group" THEN 1 + Nesting(ms[i].members) ELSE 0 :
                  i \in DOMAIN ms}
    IN  IF ds = {} THEN 0 ELSE CHOOSE d \in ds : \A e \in ds : e <= d

\* Suspend once more on each computation of ps.
Suspend(counts, ps) ==
    [p \in DOMAIN counts \cup ps |->
        (IF p \in DOMAIN counts THEN counts[p] ELSE 0) + (IF p \in ps THEN 1 ELSE 0)]

\* Faulty variant: a group is taken as the key's value as it stands, its
\* members are not gathered.
RECURSIVE Unwrap_shallow(_, _, _)
Unwrap_shallow(v, p, done) ==
    CASE v.tag = "immediate" -> v.value
      [] v.tag = "pending" -> IF p \in DOMAIN done THEN done[p] ELSE v
      [] v.tag = "group" -> [list |-> v.members]

\* The value of v at place p once the computations of `done` have finished:
\* an immediate value as it is, a pending computation replaced by what it
\* produced, a group by the collection of its members' values.
RECURSIVE Unwrap(_, _, _)
Unwrap(v, p, done) ==
    CASE v.tag = "immediate" -> v.value
      [] v.tag = "pending" -> IF p \in DOMAIN done THEN done[p] ELSE v
      [] v.tag = "group" ->
           [list |-> [i \in DOMAIN v.members |->
                         Unwrap(v.members[i], Append(p, i), done)]]

NoResult == [tag |-> "none"]
AwaitDictOfTasksCalls ==
    {[op |-> "await_dict_of_tasks", task_dict |-> t] : t \in TaskTables}
ProcessValueCalls ==
    {[op |-> "process_value", val |-> v] :
        v \in UNION {PendingOrValues(n) : n \in 1..(MaxSize - 1)}}

InitResolver ==
    /\ call \in AwaitDictOfTasksCalls \cup ProcessValueCalls
    /\ returned = <<>>
    /\ factory = NoFactory
    /\ error = NoError
    /\ instances = <<>>
    /\ decorator = NoDecorator
    /\ fn = NoFn
    /\ pc = "idle"
    /\ nodes = <<>>
    /\ inputs = EmptyDict
    /\ results = EmptyDict
    /\ saved = <<>>
    /\ evals = 0
    /\ AsyncIdle

\* await_dict_of_tasks(task_dict): immediate entries are set aside, the
\* single pending computations of the table are all suspended on at once.
AwaitDictOfTasks ==
    /\ call.op = "await_dict_of_tasks"
    /\ rpc = "idle"
    /\ tasks' = call.task_dict
    /\ rpc' = "gathering"
    /\ level' = 0
    /\ suspended' = Suspend(suspended, PendingAt(call.task_dict, <<>>, 0))
    /\ UNCHANGED <<completed, gathered, adapterVars, graphVars, driverVars>>

\* process_value(val): an immediate value is returned as it is, without
\* suspending; anything else is gathered by the rule of the table.
ProcessValue ==
    /\ call.op = "process_value"
    /\ rpc = "idle"
    /\ IF call.val.tag = "immediate"
       THEN /\ gathered' = [value |-> call.val.value]
            /\ rpc' = "returned"
            /\ UNCHANGED <<tasks, level, suspended>>
       ELSE /\ tasks' = <<call.val>>
            /\ rpc' = "gathering"
            /\ level' = 0
            /\ suspended' = Suspend(suspended, PendingAt(<<call.val>>, <<>>, 0))
            /\ UNCHANGED gathered
    /\ UNCHANGED <<completed, adapterVars, graphVars, driverVars>>

\* The scheduler finishes one of the computations the resolver is suspended
\* on, in any order.
Resume(p) ==
    /\ rpc = "gathering"
    /\ p \in DOMAIN suspended \ DOMAIN completed
    /\ completed' = [q \in DOMAIN completed \cup {p} |->
                        IF q = p THEN AwaitResult(p) ELSE completed[q]]
    /\ UNCHANGED <<tasks, rpc, level, suspended, gathered, adapterVars, graphVars, driverVars>>

\* Every computation gathered so far has finished and groups nest deeper:
\* recurse into the groups, suspending on their single pending members.
GatherGroups ==
    /\ rpc = "gathering"
    /\ DOMAIN suspended = DOMAIN completed
    /\ level < Nesting(tasks)
    /\ level' = level + 1
    /\ suspended' = Suspend(suspended, PendingAt(tasks, <<>>, level + 1))
    /\ UNCHANGED <<tasks, rpc, completed, gathered, adapterVars, graphVars, driverVars>>

\* Nothing is left to gather: merge resolved and immediate entries into
\* one map over the keys of the table (process_value returns the one value).
ReturnResolved ==
    /\ rpc = "gathering"
    /\ DOMAIN suspended = DOMAIN completed
    /\ level = Nesting(tasks)
    /\ LET merged == [k \in DOMAIN tasks |-> Unwrap(tasks[k], <<k>>, completed)]
       IN  gathered' = [value |-> IF call.op = "process_value" THEN merged[1] ELSE merged]
    /\ rpc' = "returned"
    /\ UNCHANGED <<tasks, level, suspended, completed, adapterVars, graphVars, driverVars>>

NextResolver ==
    \/ AwaitDictOfTasks
    \/ ProcessValue
    \/ \E p \in DOMAIN suspended : Resume(p)
    \/ GatherGroups
    \/ ReturnResolved

SpecResolver == InitResolver /\ [][NextResolver]_vars

\* ============================= h_async: the concurrent execution driver
\* The graph of a run: two independent nodes and one that consumes both.
\* A concurrent body returns a pending computation, a blocking body a value.
GraphNodes == {"a", "b", "c"}
GraphInput == "external_input"
deps(n) ==
    CASE n = "a" -> {GraphInput}
      [] n = "b" -> {}
      [] n = "c" -> {"a", "b"}
is_async(n) == n \in {"a", "c"}

\* The nodes whose result the requested outputs require.
RECURSIVE Upstream(_)
Upstream(n) == {n} \cup UNION {Upstream(d) : d \in deps(n) \cap GraphNodes}
Needed(outs) == UNION {Upstream(n) : n \in outs}

\* The five hook phases and the forms an adapter implements them in.
GraphHooks == {"post_graph_construct", "pre_graph_execute", "post_graph_execute"}
NodeHooks == {"pre_node_execute", "post_node_execute"}
HookForms == {"none", "blocking", "non_blocking"}
AsyncDrivers == {[form |-> f] : f \in HookForms}

\* The hook a graph-level state invokes, and the state that follows it.
GraphHookOf(ph) ==
    CASE ph = "Constructed" -> "post_graph_construct"
      [] ph = "PreGraph" -> "pre_graph_execute"
      [] ph = "PostGraph" -> "post_graph_execute"
NextPhase(ph) ==
    CASE ph = "Constructed" -> "PreGraph"
      [] ph = "PreGraph" -> "Executing"
      [] ph = "PostGraph" -> "Done"

\* What a node body computes from the values of its inputs.
NodeValue(n, args) == [node |-> n, args |-> args]
\* The keyword arguments of node n: the values of what it depends on.
NodeArgs(n, vals) == [d \in deps(n) |-> IF d = GraphInput THEN inputs[d] ELSE vals[d]]

\* One completed hook invocation with its keyword arguments.
HookCall(h, n, r) == [hook |-> h, node_ |-> n, result |-> r]
ExecutionFailure(who) ==
    [exc |-> "ExecutionFailure", shown |-> {}, raised_by |-> who,
     missing_params |-> {}, extra_params |-> {}, required_args |-> {},
     optional_args |-> {}]

\* Faulty variant: with hooks registered the run returns every value it
\* computed, not only the requested outputs.
FinalResults_all_computed(outs, vals) ==
    IF dr.form = "none" THEN [n \in outs |-> vals[n]] ELSE vals

\* The result set of the run: the values of the requested outputs.
FinalResults(outs, vals) == [n \in outs |-> vals[n]]

InitDriver ==
    /\ call = NoCall
    /\ returned = <<>>
    /\ factory = NoFactory
    /\ error = NoError
    /\ instances = <<>>
    /\ decorator = NoDecorator
    /\ fn = NoFn
    /\ pc = "idle"
    /\ nodes = <<>>
    /\ inputs \in {[i \in {GraphInput} |-> v] : v \in Values}
    /\ results = EmptyDict
    /\ saved = <<>>
    /\ evals = 0
    /\ ResolverIdle
    /\ dr \in AsyncDrivers
    /\ faulty \in {None} \cup GraphHooks \cup NodeHooks \cup GraphNodes
    /\ final_vars \in (SUBSET GraphNodes) \ {{}}
    /\ phase = "Constructed"
    /\ hook_state = "idle"
    /\ status = [n \in GraphNodes |-> "waiting"]
    /\ raw = [n \in {} |-> 0]
    /\ tracked_calls = <<>>
    /\ run_result = NoResult

\* A hook or a node body raised: the run fails and what it computed so far
\* is discarded.
Fail(who) ==
    /\ phase' = "Failed"
    /\ error' = ExecutionFailure(who)
    /\ results' = EmptyDict
    /\ hook_state' = "idle"
    /\ run_result' = NoResult

\* The graph-level hook h has completed: the run moves on; leaving
\* PostGraph the run returns its result set.
GraphHookDone(h) ==
    /\ phase' = NextPhase(phase)
    /\ hook_state' = "idle"
    /\ run_result' = IF phase = "PostGraph"
                     THEN [value |-> FinalResults(final_vars, results)]
                     ELSE run_result
    /\ UNCHANGED <<error, results>>

driverFrame ==
    <<call, returned, factory, instances, decorator, fn, pc, nodes, inputs, saved,
      evals, resolverVars, dr, faulty, final_vars>>

\* A graph-level hook runs to its end: it raises, or it is recorded with
\* its keyword arguments (post_graph_execute receives the result set).
CompleteGraphHook(h) ==
    IF faulty = h
    THEN Fail(h) /\ UNCHANGED tracked_calls
    ELSE /\ GraphHookDone(h)
         /\ tracked_calls' =
               Append(tracked_calls,
                      HookCall(h, None,
                               IF h = "post_graph_execute"
                               THEN [value |-> FinalResults(final_vars, results)]
                               ELSE NoResult))

\* Constructed, PreGraph, PostGraph: invoke the hook of the state. With no
\* hook registered the run moves on; a blocking hook is called inline; a
\* non-blocking hook is suspended on.
InvokeGraphHook ==
    /\ phase \in {"Constructed", "PreGraph", "PostGraph"}
    /\ hook_state = "idle"
    /\ IF dr.form = "none"
       THEN GraphHookDone(GraphHookOf(phase)) /\ UNCHANGED tracked_calls
       ELSE IF dr.form = "blocking"
       THEN CompleteGraphHook(GraphHookOf(phase))
       ELSE /\ hook_state' = "suspended"
            /\ UNCHANGED <<phase, error, results, run_result, tracked_calls>>
    /\ UNCHANGED <<status, raw, driverFrame>>

\* The scheduler resumes the non-blocking graph-level hook.
ResumeGraphHook ==
    /\ hook_state = "suspended"
    /\ CompleteGraphHook(GraphHookOf(phase))
    /\ UNCHANGED <<status, raw, driverFrame>>

\* A node-level hook runs to its end for node n, which then is in state st.
CompleteNodeHook(h, n, r, st) ==
    IF faulty = h
    THEN Fail(h) /\ UNCHANGED <<status, tracked_calls>>
    ELSE /\ status' = [status EXCEPT ![n] = st]
         /\ tracked_calls' = Append(tracked_calls, HookCall(h, n, r))
         /\ UNCHANGED <<phase, error, results, hook_state, run_result>>

\* Invoke a node-level hook in the registered form; a non-blocking hook is
\* suspended on (state susp) and resumed later.
InvokeNodeHook(h, n, r, susp, st) ==
    IF dr.form = "none"
    THEN /\ status' = [status EXCEPT ![n] = st]
         /\ UNCHANGED <<phase, error, results, hook_state, run_result, tracked_calls>>
    ELSE IF dr.form = "blocking"
    THEN CompleteNodeHook(h, n, r, st)
    ELSE /\ status' = [status EXCEPT ![n] = susp]
         /\ UNCHANGED <<phase, error, results, hook_state, run_result, tracked_calls>>

\* Node n may start: the run is executing, its result is required and the
\* values it depends on are there (topological order).
MayStart(n) ==
    /\ phase = "Executing"
    /\ n \in Needed(final_vars)
    /\ deps(n) \cap GraphNodes \subseteq DOMAIN results

\* Faulty variant: a node that was ready keeps going after the run failed.
MayRunBody_after_failure(n) ==
    /\ phase \in {"Executing", "Failed"}
    /\ status[n] = "ready"

\* The body of node n may run: the run is executing and the node's
\* pre_node_execute hooks are through.
MayRunBody(n) ==
    /\ phase = "Executing"
    /\ status[n] = "ready"

\* Faulty variant: the node counts as resolved as soon as its body returned.
Resolved_on_return(n) == n \in DOMAIN raw \cup DOMAIN results

\* The value of node n has been resolved.
Resolved(n) == n \in DOMAIN results

\* What post_node_execute receives as the result of node n.
ResultOfNode(n) == IF n \in DOMAIN results THEN results[n] ELSE raw[n]

PreNodeExecute(n) ==
    /\ MayStart(n)
    /\ status[n] = "waiting"
    /\ InvokeNodeHook("pre_node_execute", n, NoResult, "pre_suspended", "ready")
    /\ UNCHANGED <<raw, driverFrame>>

ResumePreNode(n) ==
    /\ phase = "Executing"
    /\ status[n] = "pre_suspended"
    /\ CompleteNodeHook("pre_node_execute", n, NoResult, "ready")
    /\ UNCHANGED <<raw, driverFrame>>

\* Run the body of n on the values of its inputs. A blocking body yields
\* its value (or raises) at once; a concurrent body returns a pending
\* computation, still to be resolved.
RunNodeBody(n) ==
    /\ MayRunBody(n)
    /\ IF is_async(n)
       THEN /\ raw' = [m \in DOMAIN raw \cup {n} |-> IF m = n THEN Pending ELSE raw[m]]
            /\ status' = [status EXCEPT ![n] = "started"]
            /\ UNCHANGED <<phase, error, results, hook_state, run_result>>
       ELSE IF faulty = n
       THEN Fail(n) /\ status' = [status EXCEPT ![n] = "raised"] /\ UNCHANGED raw
       ELSE /\ results' = [m \in DOMAIN results \cup {n} |->
                             IF m = n THEN NodeValue(n, NodeArgs(n, results))
                             ELSE results[m]]
            /\ status' = [status EXCEPT ![n] = "started"]
            /\ UNCHANGED <<phase, error, hook_state, run_result, raw>>
    /\ UNCHANGED <<tracked_calls, driverFrame>>

\* The pending computation a concurrent body returned finishes: its raw
\* value goes through the value resolver and becomes the node's value, or
\* the body raises. After a failure it is left to finish and its result is
\* discarded.
ResolveNodeValue(n) ==
    /\ status[n] = "started"
    /\ n \in DOMAIN raw
    /\ n \notin DOMAIN results
    /\ IF phase = "Failed"
       THEN /\ status' = [status EXCEPT ![n] = "discarded"]
            /\ UNCHANGED <<phase, error, results, hook_state, run_result>>
       ELSE IF faulty = n
       THEN Fail(n) /\ status' = [status EXCEPT ![n] = "raised"]
       ELSE /\ results' = [m \in DOMAIN results \cup {n} |->
                             IF m = n
                             THEN Unwrap(raw[n], <<1>>,
                                         <<1>> :> NodeValue(n, NodeArgs(n, results)))
                             ELSE results[m]]
            /\ status' = [status EXCEPT ![n] = "resolved"]
            /\ UNCHANGED <<phase, error, hook_state, run_result>>
    /\ UNCHANGED <<raw, tracked_calls, driverFrame>>

PostNodeExecute(n) ==
    /\ phase = "Executing"
    /\ status[n] \in {"started", "resolved"}
    /\ Resolved(n)
    /\ InvokeNodeHook("post_node_execute", n, ResultOfNode(n), "post_suspended", "done")
    /\ UNCHANGED <<raw, driverFrame>>

ResumePostNode(n) ==
    /\ phase = "Executing"
    /\ status[n] = "post_suspended"
    /\ CompleteNodeHook("post_node_execute", n, ResultOfNode(n), "done")
    /\ UNCHANGED <<raw, driverFrame>>

\* Every required node is through: the run enters PostGraph.
FinishExecuting ==
    /\ phase = "Executing"
    /\ \A n \in Needed(final_vars) : status[n] = "done"
    /\ phase' = "PostGraph"
    /\ UNCHANGED <<error, results, hook_state, run_result, status, raw,
                   tracked_calls, driverFrame>>

NextDriver ==
    \/ InvokeGraphHook
    \/ ResumeGraphHook
    \/ \E n \in GraphNodes : PreNodeExecute(n)
    \/ \E n \in GraphNodes : ResumePreNode(n)
    \/ \E n \in GraphNodes : RunNodeBody(n)
    \/ \E n \in GraphNodes : ResolveNodeValue(n)
    \/ \E n \in GraphNodes : PostNodeExecute(n)
    \/ \E n \in GraphNodes : ResumePostNode(n)
    \/ FinishExecuting

\* The cooperative scheduler keeps running whatever is ready to run.
SpecDriver == InitDriver /\ [][NextDriver]_vars /\ WF_vars(NextDriver)

\* ============================================================ the claims
\* ---- SpecAdapters
FactoryCalled ==
    /\ call.op = "AdapterFactory"
    /\ returned = <<>>
    /\ (factory # NoFactory \/ error # NoError)
MissingOfCall == call.adapter_cls.required \ DictKeys(call.kwargs)
ExtraOfCall ==
    DictKeys(call.kwargs) \ (call.adapter_cls.required \cup call.adapter_cls.optional)
ApplicableOfCall ==
    {i \in DOMAIN call.loader_classes : call.type_ \in call.loader_classes[i].applies}

\* C1: resolve_adapter_class returns the candidate with the highest
\* registration index among those whose applies_to accepts the type, None when
\* no candidate accepts it, and the same class on every call with the same
\* arguments.
C1_ResolveMostRecent ==
    call.op = "resolve_adapter_class" =>
        \A n \in DOMAIN returned :
            /\ ApplicableOfCall = {} => returned[n] = NoneCls
            /\ ApplicableOfCall # {} =>
                  \E i \in ApplicableOfCall :
                      /\ \A j \in ApplicableOfCall : j <= i
                      /\ returned[n] = call.loader_classes[i]
            /\ returned[n] = returned[1]
\* Two different candidates accept the type and the resolution ran twice.
C1_Witness ==
    /\ call.op = "resolve_adapter_class"
    /\ Len(returned) >= 2
    /\ Cardinality(ApplicableOfCall) >= 2
    /\ returned[2] # call.loader_classes[1]

\* C2: resolve_kwargs returns (dependencies, literals) with disjoint key sets
\* whose union is the input key set; an Upstream(source) entry is only in
\* dependencies, mapped to its source, and a Literal(value) entry only in
\* literals, mapped to its value.
C2_ResolveKwargsPartition ==
    (call.op = "resolve_kwargs" /\ returned # <<>>) =>
        LET dependencies == returned[1][1]
            literals == returned[1][2]
        IN  /\ DictKeys(dependencies) \cap DictKeys(literals) = {}
            /\ DictKeys(dependencies) \cup DictKeys(literals) = DictKeys(call.kwargs)
            /\ \A i \in DOMAIN call.kwargs :
                  LET name == call.kwargs[i].key
                      d == call.kwargs[i].val
                  IN  /\ d.tag = "upstream" =>
                            /\ name \in DictKeys(dependencies)
                            /\ name \notin DictKeys(literals)
                            /\ DictGet(dependencies, name) = d.source
                      /\ d.tag = "literal" =>
                            /\ name \in DictKeys(literals)
                            /\ name \notin DictKeys(dependencies)
                            /\ DictGet(literals, name) = d.value
\* A map with an upstream and a literal entry was resolved.
C2_Witness ==
    /\ call.op = "resolve_kwargs"
    /\ returned # <<>>
    /\ Len(returned[1][1]) = 1
    /\ Len(returned[1][2]) = 1

\* C3: when a required parameter is not supplied, building the factory raises
\* InvalidDecoratorException whose message lists exactly required - supplied,
\* and no factory (and no adapter instance) results.
C3_MissingReportedExactly ==
    (FactoryCalled /\ MissingOfCall # {}) =>
        /\ error.exc = "InvalidDecoratorException"
        /\ "missing_params" \in error.shown
        /\ error.missing_params = MissingOfCall
        /\ factory = NoFactory
        /\ instances = <<>>
\* Both keywords are required and neither is supplied.
C3_Witness ==
    /\ FactoryCalled
    /\ Cardinality(MissingOfCall) = 2
    /\ error.missing_params = AdapterKeys

\* C4 as claimed: validate fails iff missing or extra is non-empty, and every
\* failure lists the missing names, the extra names (each when there are any)
\* and both schemas.
C4_ListsBothSetsAndSchemas ==
    FactoryCalled =>
        /\ error # NoError <=> (MissingOfCall # {} \/ ExtraOfCall # {})
        /\ error # NoError =>
              /\ MissingOfCall # {} =>
                    /\ "missing_params" \in error.shown
                    /\ error.missing_params = MissingOfCall
              /\ ExtraOfCall # {} =>
                    /\ "extra_params" \in error.shown
                    /\ error.extra_params = ExtraOfCall
              /\ {"required_args", "optional_args"} \subseteq error.shown
              /\ error.required_args = call.adapter_cls.required
              /\ error.optional_args = call.adapter_cls.optional

\* C4 (amended): validate fails with InvalidDecoratorException iff missing or
\* extra is non-empty; when missing is non-empty the failure lists the missing
\* set and both schemas and not the extra set; when only extra is non-empty it
\* lists the extra set alone.
C4_FailsIffAndListsOneSet ==
    FactoryCalled =>
        /\ error # NoError <=> (MissingOfCall # {} \/ ExtraOfCall # {})
        /\ error # NoError => error.exc = "InvalidDecoratorException"
        /\ error = NoError <=> factory # NoFactory
        /\ MissingOfCall # {} =>
              /\ error.shown = {"missing_params", "required_args", "optional_args"}
              /\ error.missing_params = MissingOfCall
              /\ error.required_args = call.adapter_cls.required
              /\ error.optional_args = call.adapter_cls.optional
        /\ (MissingOfCall = {} /\ ExtraOfCall # {}) =>
              /\ error.shown = {"extra_params"}
              /\ error.extra_params = ExtraOfCall
\* A map that both lacks a required keyword and carries an unknown one.
C4_Witness ==
    /\ FactoryCalled
    /\ MissingOfCall # {}
    /\ ExtraOfCall # {}
    /\ error.exc = "InvalidDecoratorException"

\* C5: create_loader raises InvalidDecoratorException and constructs nothing
\* when can_load() is false, otherwise it calls the constructor with exactly the
\* given kwargs and returns its instance; create_saver does the same over
\* can_save(); neither reads the other flag.
C5_CreateChecksOwnFlag ==
    (call.op = "AdapterFactory" /\ returned # <<>>) =>
        LET made == returned[1]
            cls == factory.adapter_cls
            able == IF made.op = "create_loader" THEN cls.can_load ELSE cls.can_save
            fits == /\ cls.required \subseteq DOMAIN made.kwargs
                    /\ DOMAIN made.kwargs \subseteq cls.required \cup cls.optional
        IN  /\ ~able =>
                  /\ error.exc = "InvalidDecoratorException"
                  /\ instances = <<>>
                  /\ made.instance = NoInstance
            /\ able => error.exc # "InvalidDecoratorException"
            /\ (able /\ fits) =>
                  /\ error = NoError
                  /\ made.instance = [adapter_cls |-> cls, kwargs |-> made.kwargs]
                  /\ instances = <<made.instance>>
\* A loader was built by an implementation that cannot save.
C5_Witness ==
    /\ call.op = "AdapterFactory"
    /\ returned # <<>>
    /\ returned[1].op = "create_loader"
    /\ ~factory.adapter_cls.can_save
    /\ error = NoError
    /\ instances = <<[adapter_cls |-> factory.adapter_cls, kwargs |-> returned[1].kwargs]>>
    /\ DOMAIN returned[1].kwargs = AdapterKeys

\* ---- Spec
Constructed == pc \in {"built", "running", "run_failed"}

\* C6 as claimed: an InvalidDecoratorException is raised during graph
\* construction (validate, generate_nodes, transform_node), never by a node
\* body during the run.
C6_NeverRaisedAtRunTime ==
    pc = "run_failed" => error.exc # "InvalidDecoratorException"

InjectMalformed ==
    IF decorator.inject = None THEN Len(fn.params) # 1
    ELSE decorator.inject \notin Range(fn.params)
InjectTarget == IF decorator.inject = None THEN fn.params[1] ELSE decorator.inject

\* C7: on the load path, validate and generate_nodes fail with
\* InvalidDecoratorException and return no node when no injection name is
\* given and the function has not exactly one parameter, when the given name
\* is not a parameter, or when no candidate accepts the parameter's type;
\* otherwise the injection parameter is the single parameter or the given name.
C7_InjectParameter ==
    (decorator.kind = "load_from" /\ pc # "decorated") =>
        /\ InjectMalformed =>
              /\ pc = "invalid"
              /\ nodes = <<>>
              /\ error.exc = "InvalidDecoratorException"
        /\ (~InjectMalformed /\
              \A i \in DOMAIN decorator.classes :
                  fn.hints[InjectTarget] \notin decorator.classes[i].applies) =>
              /\ pc = "invalid"
              /\ nodes = <<>>
              /\ error.exc = "InvalidDecoratorException"
        /\ nodes # <<>> =>
              /\ ~InjectMalformed
              /\ nodes[1].name = InjectTarget
              /\ nodes[1].callabl.load_type = fn.hints[InjectTarget]
\* A two-parameter function decorated without an injection name was rejected.
C7_Witness ==
    /\ decorator.kind = "load_from"
    /\ decorator.inject = None
    /\ Len(fn.params) = 2
    /\ pc = "invalid"
    /\ error.raised_by = "_get_inject_parameter"

\* The keywords the decorator declares, with the values they stand for in
\* this run.
DeclaredSourcesGiven ==
    \A i \in DOMAIN decorator.kwargs :
        decorator.kwargs[i].val.tag = "upstream" =>
            decorator.kwargs[i].val.source \in DOMAIN inputs

\* C8 as claimed: for a single-parameter function and a keyword map accepted at
\* construction, the load path returns two nodes; given the graph inputs the
\* declarations name, the loader node yields the pair the adapter's load_data
\* returns for the parameter's type, and the rewritten node yields f(value).
C8_LoadThenInject ==
    (decorator.kind = "load_from" /\ Len(fn.params) = 1 /\ Constructed) =>
        /\ Len(nodes) = 2
        /\ (pc # "built" /\ DeclaredSourcesGiven) =>
              LET loader == QualifiedName(nodes[1])
              IN  /\ pc # "run_failed"
                  /\ loader \in DOMAIN results =>
                        /\ Len(instances) = 1
                        /\ results[loader] =
                              adapter_load_data(instances[1], fn.hints[fn.params[1]])
                  /\ fn.name \in DOMAIN results =>
                        results[fn.name] =
                            Apply(fn, [p \in {fn.params[1]} |-> results[loader][1]])

\* C9 as claimed: the save path returns the saver node and the original node
\* unmodified; the original node's value does not depend on the saver node;
\* every evaluation of the saver node invokes save_data once, on the original
\* node's value, and returns its metadata.
C9_SaveOncePerEvaluation ==
    (decorator.kind = "save_to" /\ Constructed) =>
        /\ Len(nodes) = 2
        /\ nodes[2] = Node_from_fn(fn)
        /\ pc # "run_failed"
        /\ Len(saved) = evals
        /\ fn.name \in DOMAIN results =>
              results[fn.name] = Apply(fn, [p \in Range(fn.params) |-> inputs[p]])
        /\ \A i \in DOMAIN saved : saved[i] = results[fn.name]
        /\ QualifiedName(nodes[1]) \in DOMAIN results =>
              results[QualifiedName(nodes[1])] =
                  adapter_save_data(instances[Len(instances)], results[fn.name])

\* C10 as claimed: the nodes an augmentation returns have pairwise distinct
\* qualified names (a colliding explicit output name is rejected at
\* construction), and without an explicit output name the saver node is the
\* existing node's name under the `save` namespace.
C10_ReturnedNamesDistinct ==
    Constructed =>
        /\ NamesDistinct
        /\ (decorator.kind = "save_to" /\ decorator.artifact_name = None) =>
              QualifiedName(nodes[1]) = Join(<<"save", fn.name>>)

\* -------------------------------------------------------------------- C15
\* The upstream sources the decorator declares for the adapter keywords K.
DeclaredSources(K) ==
    {decorator.kwargs[i].val.source :
        i \in {j \in DOMAIN decorator.kwargs :
                  /\ decorator.kwargs[j].key \in K
                  /\ decorator.kwargs[j].val.tag = "upstream"}}
\* One required input per source of a required parameter, one optional
\* input per source of an optional parameter, nothing else.
DeclaredAdapterInputs(cls) ==
    [s \in DeclaredSources(cls.required \cup cls.optional) |->
        InputType(AnyType, IF s \in DeclaredSources(cls.required) THEN REQUIRED
                           ELSE OPTIONAL)]

\* C15 as claimed: the loader node's inputs are exactly the upstream sources
\* declared for the adapter's parameters, required for a required
\* parameter and optional for an optional one, whatever the names are; the
\* saver node has these and one required input named after the existing
\* node, with that node's output type.
C15_InputsAreDeclaredSources ==
    Constructed =>
        IF decorator.kind = "load_from"
        THEN nodes[1].input_types =
                 DeclaredAdapterInputs(nodes[1].callabl.loader_factory.adapter_cls)
        ELSE nodes[1].input_types =
                 Merge(DeclaredAdapterInputs(nodes[1].callabl.adapter_factory.adapter_cls),
                       [k \in {fn.name} |-> InputType(<<fn.returns>>, REQUIRED)])

\* -------------------------------------------------------------------- C16
\* The body of the synthesized loader / saver node has been called.
AdapterNodeCalled ==
    /\ Constructed
    /\ IF decorator.kind = "load_from"
       THEN pc = "run_failed" \/ QualifiedName(nodes[1]) \in DOMAIN results
       ELSE evals > 0
\* The resolved adapter class is able to do what the node asks of it.
AdapterCapable ==
    IF decorator.kind = "load_from"
    THEN nodes[1].callabl.loader_factory.adapter_cls.can_load
    ELSE nodes[1].callabl.adapter_factory.adapter_cls.can_save
\* One constructor keyword per declared keyword: the call-time value of the
\* source it names, or its literal.
DeclaredConstructorKwargs ==
    [k \in DictKeys(decorator.kwargs) |->
        LET d == DictGet(decorator.kwargs, k)
        IN  IF d.tag = "upstream" THEN inputs[d.source] ELSE d.value]

\* C16 as claimed: called with the graph inputs its declarations name, the
\* node body constructs the adapter with exactly the declared keywords,
\* each carrying the value of its source or its literal; this also when two
\* keywords name one source or a source is named like another keyword.
C16_ConstructorGetsDeclaredKeywords ==
    (AdapterNodeCalled /\ AdapterCapable /\ DeclaredSourcesGiven) =>
        /\ instances # <<>>
        /\ \A i \in DOMAIN instances : instances[i].kwargs = DeclaredConstructorKwargs

\* -------------------------------------------------------------------- C17
\* C17 as claimed: the rewritten node of the load path keeps the function
\* node's name and output type; every parameter but the injection parameter
\* stays an input with its declared type and requiredness; the injection
\* parameter's input is replaced by one named after the loader node; called,
\* it passes the other arguments on unchanged and gives the injection
\* parameter the first component of the loader node's pair.
C17_RewrittenNodeDiffersOnlyInInjection ==
    (decorator.kind = "load_from" /\ Constructed) =>
        LET original == Node_from_fn(fn)
            loader == QualifiedName(nodes[1])
            others == Range(fn.params) \ {InjectTarget}
        IN  /\ nodes[2].name = original.name
            /\ nodes[2].typ = original.typ
            /\ DOMAIN nodes[2].input_types = others \cup {loader}
            /\ \A p \in others : nodes[2].input_types[p] = original.input_types[p]
            /\ fn.name \in DOMAIN results =>
                  results[fn.name] =
                      Apply(fn, [p \in Range(fn.params) |->
                                    IF p = InjectTarget THEN results[loader][1]
                                    ELSE inputs[p]])

\* -------------------------------------------------------------------- C11
\* Every single pending computation of the collection ms, at any depth.
AllPending(ms) == UNION {PendingAt(ms, <<>>, d) : d \in 0..Nesting(ms)}

\* A returned value holds no pending computation and no group at any depth.
RECURSIVE IsImmediate(_)
IsImmediate(x) ==
    /\ "tag" \notin DOMAIN x
    /\ "list" \in DOMAIN x => \A i \in DOMAIN x.list : IsImmediate(x.list[i])

\* What the value v at place p stands for: itself, the result of its
\* computation, or the collection of what its members stand for.
RECURSIVE ResultOf(_, _)
ResultOf(v, p) ==
    CASE v.tag = "immediate" -> v.value
      [] v.tag = "pending" -> AwaitResult(p)
      [] v.tag = "group" ->
           [list |-> [i \in DOMAIN v.members |-> ResultOf(v.members[i], Append(p, i))]]

\* C11: await_dict_of_tasks returns a map over exactly the keys of the
\* table in which every value is immediate at every depth and is the result
\* of the key's computation; no pending computation is ever suspended on
\* twice and, when the call returns, each has been suspended on once;
\* process_value returns an immediate value unchanged, without suspending.
C11_ResolveAllFlattens ==
    /\ \A p \in DOMAIN suspended : suspended[p] = 1
    /\ (rpc = "returned" /\ call.op = "await_dict_of_tasks") =>
          /\ DOMAIN gathered.value = DOMAIN call.task_dict
          /\ \A k \in DOMAIN call.task_dict :
                /\ IsImmediate(gathered.value[k])
                /\ gathered.value[k] = ResultOf(call.task_dict[k], <<k>>)
          /\ DOMAIN suspended = AllPending(call.task_dict)
    /\ (rpc = "returned" /\ call.op = "process_value") =>
          /\ IsImmediate(gathered.value)
          /\ gathered.value = ResultOf(call.val, <<1>>)
          /\ DOMAIN suspended = AllPending(<<call.val>>)
          /\ call.val.tag = "immediate" =>
                (gathered.value = call.val.value /\ DOMAIN suspended = {})

\* The table of an immediate value, a single pending computation and a
\* group holding a group of one pending computation has been resolved.
C11_Witness ==
    /\ rpc = "returned"
    /\ call.op = "await_dict_of_tasks"
    /\ call.task_dict =
          <<Immediate(Obj(1)), Pending, PendingGroup(<<PendingGroup(<<Pending>>)>>)>>
    /\ DOMAIN completed = {<<2>>, <<3, 1, 1>>}

\* -------------------------------------------------------------------- C12
\* The value of node n as the graph and the inputs of the run determine it.
RECURSIVE ExpectedValue(_)
ExpectedValue(n) ==
    NodeValue(n, [d \in deps(n) |-> IF d = GraphInput THEN inputs[d] ELSE ExpectedValue(d)])

\* The places of the recorded invocations of hook h for node n.
CallsOf(h, n) ==
    {i \in DOMAIN tracked_calls : tracked_calls[i].hook = h /\ tracked_calls[i].node_ = n}
Before(I, J) == \A i \in I, j \in J : i < j
BodyStarted(n) == status[n] \in {"started", "resolved", "raised", "discarded",
                                 "post_suspended", "done"}
PostHookStarted(n) == status[n] \in {"post_suspended", "done"}
HooksRegistered == dr.form # "none"

\* C12: under every interleaving the lifecycle events of a run are ordered:
\* post_graph_construct completes before pre_graph_execute starts, which
\* completes before any pre_node_execute; a node's body starts only after
\* its pre_node_execute; its post_node_execute starts only once its value
\* is resolved and receives that resolved value; post_graph_execute follows
\* every post_node_execute; a completed run has fired all five phases, in
\* blocking and in non-blocking form.
C12_LifecycleOrdered ==
    /\ (phase = "PreGraph" /\ HooksRegistered) =>
          CallsOf("post_graph_construct", None) # {}
    /\ Before(CallsOf("post_graph_construct", None), CallsOf("pre_graph_execute", None))
    /\ \A n \in GraphNodes :
          /\ (status[n] # "waiting" /\ HooksRegistered) =>
                CallsOf("pre_graph_execute", None) # {}
          /\ Before(CallsOf("pre_graph_execute", None), CallsOf("pre_node_execute", n))
          /\ (BodyStarted(n) /\ HooksRegistered) => CallsOf("pre_node_execute", n) # {}
          /\ Before(CallsOf("pre_node_execute", n), CallsOf("post_node_execute", n))
          /\ (PostHookStarted(n) /\ phase # "Failed") =>
                (n \in DOMAIN results /\ results[n] = ExpectedValue(n))
          /\ \A i \in CallsOf("post_node_execute", n) :
                tracked_calls[i].result = ExpectedValue(n)
          /\ Before(CallsOf("post_node_execute", n), CallsOf("post_graph_execute", None))
          /\ (phase \in {"PostGraph", "Done"} /\ n \in Needed(final_vars)) =>
                /\ status[n] = "done"
                /\ HooksRegistered => CallsOf("post_node_execute", n) # {}
    /\ (phase = "Done" /\ HooksRegistered) =>
          {tracked_calls[i].hook : i \in DOMAIN tracked_calls} = GraphHooks \cup NodeHooks

\* A run with non-blocking hooks is done in which the hooks of the two
\* independent nodes interleaved.
C12_Witness ==
    /\ phase = "Done"
    /\ dr.form = "non_blocking"
    /\ final_vars = {"c"}
    /\ Len(tracked_calls) = 9
    /\ tracked_calls[3] = HookCall("pre_node_execute", "a", NoResult)
    /\ tracked_calls[4] = HookCall("pre_node_execute", "b", NoResult)
    /\ tracked_calls[5].hook = "post_node_execute" /\ tracked_calls[5].node_ = "b"
    /\ tracked_calls[6].hook = "post_node_execute" /\ tracked_calls[6].node_ = "a"

\* -------------------------------------------------------------------- C13
\* The faulty hook or node body is one the run gets to.
FaultHit ==
    \/ faulty \in GraphHooks \cup NodeHooks /\ HooksRegistered
    \/ faulty \in Needed(final_vars)
NotStarted(n) == status[n] \in {"waiting", "pre_suspended", "ready"}

\* C13: a failing hook or node body takes the run to Failed; from then on
\* no body that had not started is started, nothing is reported as a result
\* set, what started computations produce is discarded, and the run never
\* is Done; once executing, every run ends Done or Failed, never both.
C13_FailureAborts ==
    /\ [](phase = "Failed" =>
             /\ FaultHit
             /\ results = EmptyDict
             /\ run_result = NoResult
             /\ CallsOf("post_graph_execute", None) = {})
    /\ [](phase = "Done" => ~FaultHit)
    /\ [][phase = "Failed" =>
             /\ phase' = "Failed"
             /\ \A n \in GraphNodes : NotStarted(n) => status'[n] = status[n]]_vars
    /\ [][phase = "Done" => phase' = "Done"]_vars
    /\ (phase = "Executing") ~> (phase \in {"Done", "Failed"})
    /\ FaultHit ~> (phase = "Failed")

\* A blocking body raised while a concurrent one was under way: that one
\* finished and was discarded, the node consuming both never started.
C13_Witness ==
    /\ phase = "Failed"
    /\ faulty = "b"
    /\ status["a"] = "discarded"
    /\ status["b"] = "raised"
    /\ status["c"] = "waiting"

\* -------------------------------------------------------------------- C14
\* C14: whatever hooks are registered (none, blocking, non-blocking), a run
\* in which nothing raises reaches Done, and the result map of a run that
\* is Done has exactly the requested outputs as keys, each with the value
\* the graph and the inputs determine: registering hooks changes neither.
C14_HooksDoNotChangeResults ==
    /\ [](phase = "Done" =>
             /\ DOMAIN run_result.value = final_vars
             /\ \A n \in final_vars : run_result.value[n] = ExpectedValue(n))
    /\ (~FaultHit) ~> (phase = "Done")

\* A run with blocking hooks returned one of three computed values.
C14_Witness ==
    /\ phase = "Done"
    /\ dr.form = "blocking"
    /\ final_vars = {"c"}
    /\ run_result.value = [n \in {"c"} |-> ExpectedValue("c")]
    /\ Len(tracked_calls) = 9
====
